---- MODULE Spec2Model ----
(***************************************************************************)
(* Document ingestion pipeline: DOCX / PDF sectionizers, the chunker of    *)
(* ingest_upload and the chunk records it builds.                          *)
(*                                                                         *)
(* Strings are sequences of one-character strings, so that strip, rfind,   *)
(* slicing, split and int() are computed character by character.  Python   *)
(* offsets are 0-based: the character at Python offset i is s[i + 1].      *)
(***************************************************************************)
EXTENDS Integers, Sequences, FiniteSets, TLC

VARIABLES
    pc,             \* control position of the running function
    text,           \* _chunk_text: the text being chunked
    max_chars,      \* processing.chunk.max_chars
    overlap,        \* processing.chunk.overlap_chars
    start,          \* _chunk_text: start offset of the next window
    chunks,         \* _chunk_text: trimmed windows appended so far (empty ones included)
    windows,        \* the [start, end) offsets of each element of chunks
    pieces,         \* _chunk_text: the returned list
    sections,       \* the sectionizer's output list; result.sections in ingest_upload
    curr,           \* sectionizer: the open section, <<>> for None, else <<section>>
    sid,            \* sectionizer: the section counter
    in_i,           \* sectionizer: number of paragraphs / lines consumed
    paragraphs,     \* DOCX sectionizer input: [text, style] records
    pages,          \* PDF sectionizer input: [page_num, text, size, bold], one per
                    \* line, in the order the loops over pages and lines visit them
    size_thr,       \* PDF sectionizer: the global size threshold
    style,          \* level_from_style: the style name
    lvl,            \* level_from_style: the returned level, 0 before the call
    sec_i,          \* ingest_upload: number of sections chunked
    running_index,  \* ingest_upload: running_index
    chunk_docs,     \* ingest_upload: chunk_docs
    doc_id,         \* ingest_upload: doc_id
    file,           \* process_file: the file at path: [mime, path, npages]
    backends,       \* extract_pdf_native_text: which PDF libraries import
    ran,            \* process_file: the extractors and backends started so far
    ex_pages,       \* extract_pdf_native_text: the local list pages
    result,         \* process_file: <<>> or <<the returned ProcessResult>>
    raised,         \* process_file: "" or the exception that left the call
    discarded,      \* extract_pdf_native_text: the pages of the first backend
                    \* that line 85 rebinding pages left unreachable (history)
    gridfs,         \* GridFS: the stored files, [file_id, document_id]
    db_docs,        \* collection document_metadata
    db_chunks,      \* collection document_chunks
    db_embeds,      \* collection embeddings
    resp,           \* the response of the last request served
    nops,           \* number of requests served
    unique,         \* the fields start-up created a unique index on
    nok,            \* number of them that were ingest_upload calls answered 200
                    \* (history)
    tmpfiles        \* the temporary files of ingest_upload that exist, each named
                    \* by the number of the request that created it

chunkVars == <<text, start, chunks, windows, pieces>>
cfgVars == <<max_chars, overlap>>
secVars == <<sections, curr, sid, in_i>>
docxVars == <<paragraphs>>
pdfVars == <<pages, size_thr>>
styleVars == <<style, lvl>>
ingestVars == <<sec_i, running_index, chunk_docs, doc_id>>

procVars == <<file, backends, ran, ex_pages, result, raised, discarded>>
uploadVars == <<nok, tmpfiles>>
storeVars == <<gridfs, db_docs, db_chunks, db_embeds, resp, nops, unique, uploadVars>>
envVars == <<procVars, storeVars>>

vars == <<pc, chunkVars, cfgVars, secVars, docxVars, pdfVars, styleVars, ingestVars,
          envVars>>

(***************************************************************************)
(* Bounds of the model.                                                    *)
(***************************************************************************)
MaxLen == 5         \* longest text handed to the chunker on its own
MaxChars == 4       \* largest max_chars
MaxOverlap == 3     \* largest overlap_chars
MaxParas == 3       \* most paragraphs of a DOCX input
MaxLines == 3       \* most lines of a PDF input
MaxSuffix == 3      \* longest tail of a style name after its first word
MaxPages == 2       \* most pages of a PDF file
MaxOps == 3         \* most requests served in a run

(***************************************************************************)
(* Characters and Python string helpers.                                   *)
(***************************************************************************)
SP == " "
NL == "\n"
Whitespace == {SP, NL}
TextChars == {"a", SP, NL}

Min2(a, b) == IF a <= b THEN a ELSE b
Max2(a, b) == IF a >= b THEN a ELSE b
SetMax(S) == CHOOSE x \in S : \A y \in S : y <= x
SetMin(S) == CHOOSE x \in S : \A y \in S : x <= y

\* the sequences over S of length at most n
SeqsUpTo(S, n) == UNION {[1..k -> S] : k \in 0..n}

\* s[a:b] for 0 <= a, 0 <= b (Python clamps to the length)
Slice(s, a, b) == SubSeq(s, a + 1, Min2(b, Len(s)))

\* Strip that drops leading whitespace only
StripLeft(s) ==
    LET keep == {i \in 1..Len(s) : s[i] \notin Whitespace}
    IN  IF keep = {} THEN <<>> ELSE SubSeq(s, SetMin(keep), Len(s))

\* str.strip(): drop leading and trailing whitespace
Strip(s) ==
    LET keep == {i \in 1..Len(s) : s[i] \notin Whitespace}
    IN  IF keep = {} THEN <<>> ELSE SubSeq(s, SetMin(keep), SetMax(keep))

\* str.rfind(ch, a, b): highest offset in [a, b) holding ch, or -1
RFind(s, ch, a, b) ==
    LET hits == {i \in a..(Min2(b, Len(s)) - 1) : s[i + 1] = ch}
    IN  IF hits = {} THEN -1 ELSE SetMax(hits)

\* [c for c in chunks if c]
RECURSIVE NonEmpty(_)
NonEmpty(cs) ==
    IF cs = <<>> THEN <<>>
    ELSE IF Head(cs) = <<>> THEN NonEmpty(Tail(cs))
         ELSE <<Head(cs)>> \o NonEmpty(Tail(cs))

(***************************************************************************)
(* _chunk_text (ingest_api.py 133-153), one loop iteration per step.       *)
(***************************************************************************)
\* int(0.5 * max_chars) for max_chars > 0
HalfOf(m) == m \div 2

\* WindowEnd with the window taken one character too wide
WindowEndInclusive(t, st, m) ==
    LET n     == Len(t)
        end0  == Min2(n, st + m + 1)
        space == RFind(t, SP, st, end0)
    IN  IF end0 < n /\ space # -1 /\ space > st + HalfOf(m) THEN space ELSE end0

\* WindowEnd snapping back to any space after the window's start
WindowEndAnySpace(t, st, m) ==
    LET n     == Len(t)
        end0  == Min2(n, st + m)
        space == RFind(t, SP, st, end0)
    IN  IF end0 < n /\ space # -1 /\ space > st THEN space ELSE end0

\* lines 140-145: the end of the window that starts at st
WindowEnd(t, st, m) ==
    LET n     == Len(t)
        end0  == Min2(n, st + m)
        space == RFind(t, SP, st, end0)
    IN  IF end0 < n /\ space # -1 /\ space > st + HalfOf(m) THEN space ELSE end0

\* NextStart without the overlap
NextStartNoOverlap(end, ov) == end

\* lines 150-152: the start of the next window
NextStart(end, ov) ==
    LET s1 == Max2(0, end - Max2(0, ov))
    IN  IF s1 = end THEN s1 + 1 ELSE s1

\* A run of the loop that terminates visits each start offset at most once (the
\* next start is a function of the current one), so it makes at most Len(t)
\* iterations; a run that reaches IterCap(t) iterations has repeated a start and
\* never ends.  The model stops following such a run there.
IterCap(t) == Len(t) + 1

\* lines 134-138
ChunkEnter(t) ==
    /\ text' = t
    /\ start' = 0
    /\ chunks' = <<>>
    /\ windows' = <<>>
    /\ pieces' = <<>>

\* lines 134-135: max_chars <= 0 returns the text whole
ChunkPassthrough ==
    /\ pc = "chunk_loop"
    /\ max_chars <= 0
    /\ pieces' = <<text>>
    /\ pc' = "chunk_done"
    /\ UNCHANGED <<text, start, chunks, windows>>
    /\ UNCHANGED <<cfgVars, secVars, docxVars, pdfVars, styleVars, ingestVars, envVars>>

\* lines 139-152: one iteration of the while loop
ChunkIter ==
    /\ pc = "chunk_loop"
    /\ max_chars > 0
    /\ start < Len(text)
    /\ Len(chunks) < IterCap(text)
    /\ LET end == WindowEnd(text, start, max_chars)
       IN  /\ chunks' = Append(chunks, Strip(Slice(text, start, end)))
           /\ windows' = Append(windows, <<start, end>>)
           /\ IF end >= Len(text)
                THEN /\ pc' = "chunk_filter"
                     /\ start' = start
                ELSE /\ pc' = "chunk_loop"
                     /\ start' = NextStart(end, overlap)
    /\ UNCHANGED <<text, pieces>>
    /\ UNCHANGED <<cfgVars, secVars, docxVars, pdfVars, styleVars, ingestVars, envVars>>

\* line 139: the loop condition fails
ChunkLoopExit ==
    /\ pc = "chunk_loop"
    /\ max_chars > 0
    /\ start >= Len(text)
    /\ pc' = "chunk_filter"
    /\ UNCHANGED <<chunkVars, cfgVars, secVars, docxVars, pdfVars, styleVars, ingestVars, envVars>>

\* line 153
ChunkReturn ==
    /\ pc = "chunk_filter"
    /\ pieces' = NonEmpty(chunks)
    /\ pc' = "chunk_done"
    /\ UNCHANGED <<text, start, chunks, windows>>
    /\ UNCHANGED <<cfgVars, secVars, docxVars, pdfVars, styleVars, ingestVars, envVars>>

(***************************************************************************)
(* Section (sectionizer.py 7-16); f"sec_{sid}" is the pair <<"sec_", sid>>. *)
(***************************************************************************)
SecId(n) == <<"sec_", n>>

Section(id, level, title, body, page_start, page_end) ==
    [section_id |-> id, level |-> level, title |-> title, text |-> body,
     page_start |-> page_start, page_end |-> page_end, related |-> {}]

Preamble == <<"P","r","e","a","m","b","l","e">>

\* current.text += ("\n" if current.text else "") + text
AppendLine(body, t) == body \o (IF body # <<>> THEN <<NL>> ELSE <<>>) \o t

(***************************************************************************)
(* level_from_style (sectionizer.py 24-33).                                *)
(***************************************************************************)
UpperLetters == <<"A","B","C","D","E","F","G","H","I","J","K","L","M",
                  "N","O","P","Q","R","S","T","U","V","W","X","Y","Z">>
LowerLetters == <<"a","b","c","d","e","f","g","h","i","j","k","l","m",
                  "n","o","p","q","r","s","t","u","v","w","x","y","z">>
Digits == <<"0","1","2","3","4","5","6","7","8","9">>

LowerChar(c) ==
    IF \E i \in 1..Len(UpperLetters) : UpperLetters[i] = c
    THEN LowerLetters[CHOOSE i \in 1..Len(UpperLetters) : UpperLetters[i] = c]
    ELSE c

\* str.lower()
Lower(s) == [i \in 1..Len(s) |-> LowerChar(s[i])]

IsDigitChar(c) == \E i \in 1..Len(Digits) : Digits[i] = c
DigitVal(c) == (CHOOSE i \in 1..Len(Digits) : Digits[i] = c) - 1

\* str.startswith(prefix)
StartsWith(s, prefix) ==
    /\ Len(s) >= Len(prefix)
    /\ SubSeq(s, 1, Len(prefix)) = prefix

\* str.isdigit(): non-empty and every character a digit
IsDigit(s) == s # <<>> /\ \A i \in 1..Len(s) : IsDigitChar(s[i])

\* the value of a run of decimal digits
RECURSIVE DigitsVal(_)
DigitsVal(s) ==
    IF s = <<>> THEN 0 ELSE 10 * DigitsVal(SubSeq(s, 1, Len(s) - 1)) + DigitVal(s[Len(s)])

\* int(tok) for a token without whitespace: an optional sign, then digits.
\* IntOk is FALSE where int() raises ValueError.
IntOk(tok) ==
    IF tok # <<>> /\ tok[1] \in {"+", "-"} THEN IsDigit(Tail(tok)) ELSE IsDigit(tok)
IntVal(tok) ==
    IF tok[1] = "-" THEN 0 - DigitsVal(Tail(tok))
    ELSE IF tok[1] = "+" THEN DigitsVal(Tail(tok))
    ELSE DigitsVal(tok)

\* str.split(): the maximal runs of non-whitespace characters
RECURSIVE Split(_)
Split(s) ==
    IF s = <<>> THEN <<>>
    ELSE IF Head(s) \in Whitespace THEN Split(Tail(s))
    ELSE LET stops == {i \in 1..Len(s) : s[i] \in Whitespace}
             cut   == IF stops = {} THEN Len(s) + 1 ELSE SetMin(stops)
         IN  <<SubSeq(s, 1, cut - 1)>> \o Split(SubSeq(s, cut, Len(s)))

Clamp16(n) == Max2(1, Min2(6, n))

HeadingWord == <<"h","e","a","d","i","n","g">>

\* level_from_style with the except branch returning the body level
level_from_style_except7(st) ==
    LET s == Lower(st)
    IN  IF StartsWith(s, HeadingWord \o <<SP>>)
        THEN IF Len(Split(s)) >= 2 /\ IntOk(Split(s)[2])
             THEN Clamp16(IntVal(Split(s)[2]))
             ELSE 7
        ELSE IF StartsWith(s, HeadingWord) /\ Len(s) > 7 /\ IsDigit(SubSeq(s, 8, Len(s)))
             THEN Clamp16(DigitsVal(SubSeq(s, 8, Len(s))))
             ELSE 7

level_from_style(st) ==
    LET s == Lower(st)
    IN  IF StartsWith(s, HeadingWord \o <<SP>>)
        THEN IF Len(Split(s)) >= 2 /\ IntOk(Split(s)[2])
             THEN Clamp16(IntVal(Split(s)[2]))
             ELSE 2
        ELSE IF StartsWith(s, HeadingWord) /\ Len(s) > 7 /\ IsDigit(SubSeq(s, 8, Len(s)))
             THEN Clamp16(DigitsVal(SubSeq(s, 8, Len(s))))
             ELSE 7

\* the call level_from_style(style)
StyleLevel ==
    /\ pc = "style_call"
    /\ lvl' = level_from_style(style)
    /\ pc' = "style_done"
    /\ UNCHANGED <<style, chunkVars, cfgVars, secVars, docxVars, pdfVars, ingestVars, envVars>>

(***************************************************************************)
(* sectionize_from_docx_paragraphs (sectionizer.py 18-56).                 *)
(***************************************************************************)
\* DocxStep with body text before the first heading opening a section
DocxStepPreamble(st, p) ==
    LET t == Strip(p.text)
        l == level_from_style(p.style)
    IN  IF l <= 6 /\ t # <<>>
        THEN [sections |-> st.sections \o st.curr,
              curr     |-> <<Section(SecId(st.sid + 1), l, t, <<>>, 1, 1)>>,
              sid      |-> st.sid + 1]
        ELSE IF st.curr # <<>> /\ t # <<>>
             THEN [st EXCEPT !.curr = <<[st.curr[1] EXCEPT !.text = AppendLine(@, t)]>>]
             ELSE IF t # <<>>
                  THEN [st EXCEPT !.curr = <<Section(SecId(st.sid + 1), 3, Preamble, t, 1, 1)>>,
                                  !.sid = st.sid + 1]
                  ELSE st

\* lines 35-53: the loop body on paragraph p; st = [sections, curr, sid]
DocxStep(st, p) ==
    LET t == Strip(p.text)
        l == level_from_style(p.style)
    IN  IF l <= 6 /\ t # <<>>
        THEN [sections |-> st.sections \o st.curr,
              curr     |-> <<Section(SecId(st.sid + 1), l, t, <<>>, 1, 1)>>,
              sid      |-> st.sid + 1]
        ELSE IF st.curr # <<>> /\ t # <<>>
             THEN [st EXCEPT !.curr = <<[st.curr[1] EXCEPT !.text = AppendLine(@, t)]>>]
             ELSE st

\* lines 54-56 (pdf_sectionizer.py 66-68)
SecFinish(st) == st.sections \o st.curr

SecState0 == [sections |-> <<>>, curr |-> <<>>, sid |-> 0]

RECURSIVE DocxFold(_, _)
DocxFold(st, ps) == IF ps = <<>> THEN st ELSE DocxFold(DocxStep(st, Head(ps)), Tail(ps))

sectionize_from_docx_paragraphs(ps) == SecFinish(DocxFold(SecState0, ps))

DocxParagraph ==
    /\ pc = "docx_loop"
    /\ in_i < Len(paragraphs)
    /\ LET st == DocxStep([sections |-> sections, curr |-> curr, sid |-> sid],
                          paragraphs[in_i + 1])
       IN  /\ sections' = st.sections
           /\ curr' = st.curr
           /\ sid' = st.sid
    /\ in_i' = in_i + 1
    /\ pc' = "docx_loop"
    /\ UNCHANGED <<chunkVars, cfgVars, docxVars, pdfVars, styleVars, ingestVars, envVars>>

DocxReturn ==
    /\ pc = "docx_loop"
    /\ in_i = Len(paragraphs)
    /\ sections' = SecFinish([sections |-> sections, curr |-> curr, sid |-> sid])
    /\ pc' = "docx_done"
    /\ UNCHANGED <<curr, sid, in_i>>
    /\ UNCHANGED <<chunkVars, cfgVars, docxVars, pdfVars, styleVars, ingestVars, envVars>>

(***************************************************************************)
(* sectionize_pdf_lines (pdf_sectionizer.py 8-68).  Sizes are integers;    *)
(* size 0 also stands for a missing size (ln.get("size") or 0.0).          *)
(***************************************************************************)
\* list.sort() by insertion
RECURSIVE Insert(_, _)
Insert(x, srt) ==
    IF srt = <<>> THEN <<x>>
    ELSE IF x <= Head(srt) THEN <<x>> \o srt
         ELSE <<Head(srt)>> \o Insert(x, Tail(srt))

RECURSIVE Sorted(_)
Sorted(xs) == IF xs = <<>> THEN <<>> ELSE Insert(Head(xs), Sorted(Tail(xs)))

\* lines 9-14: the positive sizes, in visiting order
RECURSIVE PositiveSizes(_)
PositiveSizes(lns) ==
    IF lns = <<>> THEN <<>>
    ELSE (IF Head(lns).size > 0 THEN <<Head(lns).size>> ELSE <<>>)
         \o PositiveSizes(Tail(lns))

\* int(0.85 * (n - 1)) for n >= 1; the double product truncates to the same
\* integer as the exact one for every n a document can have
PercentileIndex(n) == (85 * (n - 1)) \div 100

\* lines 8-19
compute_size_thresholds(lns) ==
    LET sizes == PositiveSizes(lns)
    IN  IF sizes = <<>> THEN 0
        ELSE Sorted(sizes)[PercentileIndex(Len(sizes)) + 1]

\* is_heading without the bold clause
is_heading_size_only(size, bold, thr) == size >= thr

\* line 39: size >= size_thr or (bold and size_thr and size >= 0.9 * size_thr);
\* for whole-number sizes the double 0.9 * size_thr compares as 9 * thr / 10
is_heading(size, bold, thr) ==
    \/ size >= thr
    \/ (bold /\ thr # 0 /\ 10 * size >= 9 * thr)

\* PdfStep with a later preamble line replacing the preamble's text
PdfStepOverwrite(st, ln, thr) ==
    LET t == Strip(ln.text)
    IN  IF t = <<>> THEN st
        ELSE IF is_heading(ln.size, ln.bold, thr)
        THEN [sections |-> st.sections \o st.curr,
              curr     |-> <<Section(SecId(st.sid + 1), 2, t, <<>>, ln.page_num, ln.page_num)>>,
              sid      |-> st.sid + 1]
        ELSE IF st.curr # <<>> /\ st.curr[1].level # 3
             THEN [st EXCEPT !.curr = <<[st.curr[1] EXCEPT
                                           !.text = AppendLine(@, t),
                                           !.page_end = Max2(@, ln.page_num)]>>]
             ELSE [st EXCEPT !.curr = <<Section(SecId(st.sid + 1), 3, Preamble, t,
                                                ln.page_num, ln.page_num)>>,
                             !.sid = st.sid + 1]

\* PdfStep allocating an id to every line, blank lines included
PdfStepSidPerLine(st, ln, thr) ==
    LET t == Strip(ln.text)
        s1 == [st EXCEPT !.sid = @ + 1]
    IN  IF t = <<>> THEN s1
        ELSE IF is_heading(ln.size, ln.bold, thr)
        THEN [sections |-> st.sections \o st.curr,
              curr     |-> <<Section(SecId(st.sid + 1), 2, t, <<>>, ln.page_num, ln.page_num)>>,
              sid      |-> st.sid + 1]
        ELSE IF st.curr # <<>>
             THEN [st EXCEPT !.curr = <<[st.curr[1] EXCEPT
                                           !.text = AppendLine(@, t),
                                           !.page_end = Max2(@, ln.page_num)]>>]
             ELSE [st EXCEPT !.curr = <<Section(SecId(st.sid + 1), 3, Preamble, t,
                                                ln.page_num, ln.page_num)>>,
                             !.sid = st.sid + 1]

\* PdfStep setting page_end to the page of the last line added
PdfStepLastPage(st, ln, thr) ==
    LET t == Strip(ln.text)
    IN  IF t = <<>> THEN st
        ELSE IF is_heading(ln.size, ln.bold, thr)
        THEN [sections |-> st.sections \o st.curr,
              curr     |-> <<Section(SecId(st.sid + 1), 2, t, <<>>, ln.page_num, ln.page_num)>>,
              sid      |-> st.sid + 1]
        ELSE IF st.curr # <<>>
             THEN [st EXCEPT !.curr = <<[st.curr[1] EXCEPT
                                           !.text = AppendLine(@, t),
                                           !.page_end = ln.page_num]>>]
             ELSE [st EXCEPT !.curr = <<Section(SecId(st.sid + 1), 3, Preamble, t,
                                                ln.page_num, ln.page_num)>>,
                             !.sid = st.sid + 1]

\* lines 34-65: the loop body on line ln; st = [sections, curr, sid]
PdfStep(st, ln, thr) ==
    LET t == Strip(ln.text)
    IN  IF t = <<>> THEN st
        ELSE IF is_heading(ln.size, ln.bold, thr)
        THEN [sections |-> st.sections \o st.curr,
              curr     |-> <<Section(SecId(st.sid + 1), 2, t, <<>>, ln.page_num, ln.page_num)>>,
              sid      |-> st.sid + 1]
        ELSE IF st.curr # <<>>
             THEN [st EXCEPT !.curr = <<[st.curr[1] EXCEPT
                                           !.text = AppendLine(@, t),
                                           !.page_end = Max2(@, ln.page_num)]>>]
             ELSE [st EXCEPT !.curr = <<Section(SecId(st.sid + 1), 3, Preamble, t,
                                                ln.page_num, ln.page_num)>>,
                             !.sid = st.sid + 1]

RECURSIVE PdfFold(_, _, _)
PdfFold(st, lns, thr) ==
    IF lns = <<>> THEN st ELSE PdfFold(PdfStep(st, Head(lns), thr), Tail(lns), thr)

sectionize_pdf_lines(lns) ==
    SecFinish(PdfFold(SecState0, lns, compute_size_thresholds(lns)))

\* lines 26-29
PdfEnter ==
    /\ pc = "pdf_enter"
    /\ size_thr' = compute_size_thresholds(pages)
    /\ pc' = "pdf_loop"
    /\ UNCHANGED <<pages, secVars, chunkVars, cfgVars, docxVars, styleVars, ingestVars, envVars>>

PdfLine ==
    /\ pc = "pdf_loop"
    /\ in_i < Len(pages)
    /\ LET st == PdfStep([sections |-> sections, curr |-> curr, sid |-> sid],
                         pages[in_i + 1], size_thr)
       IN  /\ sections' = st.sections
           /\ curr' = st.curr
           /\ sid' = st.sid
    /\ in_i' = in_i + 1
    /\ pc' = "pdf_loop"
    /\ UNCHANGED <<chunkVars, cfgVars, docxVars, pdfVars, styleVars, ingestVars, envVars>>

PdfReturn ==
    /\ pc = "pdf_loop"
    /\ in_i = Len(pages)
    /\ sections' = SecFinish([sections |-> sections, curr |-> curr, sid |-> sid])
    /\ pc' = "pdf_done"
    /\ UNCHANGED <<curr, sid, in_i>>
    /\ UNCHANGED <<chunkVars, cfgVars, docxVars, pdfVars, styleVars, ingestVars, envVars>>

(***************************************************************************)
(* ingest_upload, lines 155-185: chunking the sections of one document.    *)
(***************************************************************************)
\* line 162
BaseText(sec) ==
    IF sec.text # <<>> THEN Strip(sec.title \o <<NL, NL>> \o sec.text) ELSE sec.title

\* ChunkDocsOf with the index restarting in every section
ChunkDocsPerSection(doc, sec, ps, r) ==
    [j \in 1..Len(ps) |->
        [document_id |-> doc,
         chunk_id    |-> sec.section_id \o <<"_c", j>>,
         chunk_index |-> j - 1,
         content     |-> ps[j],
         metadata    |-> [level |-> sec.level, title |-> sec.title,
                          page_start |-> sec.page_start, page_end |-> sec.page_end,
                          related |-> sec.related]]]

\* lines 164-180: the records of one section's pieces; r is running_index
\* before the section
ChunkDocsOf(doc, sec, ps, r) ==
    [j \in 1..Len(ps) |->
        [document_id |-> doc,
         chunk_id    |-> sec.section_id \o <<"_c", j>>,
         chunk_index |-> (r + j) - 1,
         content     |-> ps[j],
         metadata    |-> [level |-> sec.level, title |-> sec.title,
                          page_start |-> sec.page_start, page_end |-> sec.page_end,
                          related |-> sec.related]]]

\* lines 160-163: the next section's text enters the chunker
IngestSection ==
    /\ pc = "ingest_loop"
    /\ sec_i < Len(sections)
    /\ ChunkEnter(BaseText(sections[sec_i + 1]))
    /\ pc' = "chunk_loop"
    /\ UNCHANGED <<cfgVars, secVars, docxVars, pdfVars, styleVars, ingestVars, envVars>>

\* lines 164-180: the chunker has returned
IngestPieces ==
    /\ pc = "chunk_done"
    /\ chunk_docs' = chunk_docs \o ChunkDocsOf(doc_id, sections[sec_i + 1], pieces, running_index)
    /\ running_index' = running_index + Len(pieces)
    /\ sec_i' = sec_i + 1
    /\ pc' = "ingest_loop"
    /\ UNCHANGED <<doc_id, chunkVars, cfgVars, secVars, docxVars, pdfVars, styleVars, envVars>>

\* line 182: every section is chunked
IngestChunked ==
    /\ pc = "ingest_loop"
    /\ sec_i = Len(sections)
    /\ pc' = "ingest_chunked"
    /\ UNCHANGED <<chunkVars, cfgVars, secVars, docxVars, pdfVars, styleVars, ingestVars, envVars>>

(***************************************************************************)
(* Inputs.                                                                 *)
(***************************************************************************)
StyleHeading1 == <<"H","e","a","d","i","n","g",SP,"1">>
StyleHeading9 == <<"h","e","a","d","i","n","g","9">>
StyleNormal == <<"N","o","r","m","a","l">>

DocxTexts == {<<>>, <<"a">>, <<SP, "b", SP>>}
DocxStyles == {StyleHeading1, StyleHeading9, StyleNormal}
DocxInputs == SeqsUpTo([text : DocxTexts, style : DocxStyles], MaxParas)

\* Line i of a PDF input is blank or holds the i-th letter, so that the order
\* of the lines shows in the sections.
LineLetters == <<"a", "b", "c", "d", "e", "f">>
PdfSizes == {0, 9, 10}
PdfPageNums == {1, 2}
PdfChoices == [page_num : PdfPageNums, blank : BOOLEAN, size : PdfSizes, bold : BOOLEAN]
PdfLinesOf(c) ==
    [i \in 1..Len(c) |->
        [page_num |-> c[i].page_num,
         text     |-> IF c[i].blank THEN <<SP>> ELSE <<LineLetters[i]>>,
         size     |-> c[i].size,
         bold     |-> c[i].bold]]
PdfInputs == {PdfLinesOf(c) : c \in SeqsUpTo(PdfChoices, MaxLines)}

StylePrefixes == {<<>>, <<"H","e","a","d">>, <<"H","e","a","d","i","n","g">>,
                  <<"h","e","a","d","i","n","g">>, <<"H","E","A","D","I","N","G">>}
StyleTailChars == {SP, "2", "9", "x", "-"}
StyleInputs == {p \o t : p \in StylePrefixes, t \in SeqsUpTo(StyleTailChars, MaxSuffix)}

IdleChunk ==
    /\ text = <<>>
    /\ start = 0
    /\ chunks = <<>>
    /\ windows = <<>>
    /\ pieces = <<>>
IdleCfg == max_chars = 0 /\ overlap = 0
IdleSec ==
    /\ sections = <<>>
    /\ curr = <<>>
    /\ sid = 0
    /\ in_i = 0
IdleDocx == paragraphs = <<>>
IdlePdf == pages = <<>> /\ size_thr = 0
IdleStyle == style = <<>> /\ lvl = 0
\* tools/identify.py 17-27 and processor.py 26-45: MIME types
MimeDocx == "application/vnd.openxmlformats-officedocument.wordprocessingml.document"
MimeXZip == "application/x-zip-compressed"
MimePdf == "application/pdf"
MimeDoc == "application/msword"
MimeZip == "application/zip"
MimeOctet == "application/octet-stream"

\* the MIME types sniff_file reports in the model
Mimes == {MimeDocx, MimeXZip, MimePdf, MimeDoc, MimeZip, MimeOctet}

IdleProc ==
    /\ file = [mime |-> MimeOctet, path |-> <<>>, npages |-> 0]
    /\ backends = [fitz |-> FALSE, plumber |-> FALSE]
    /\ ran = {}
    /\ ex_pages = <<>>
    /\ result = <<>>
    /\ raised = ""
    /\ discarded = <<>>
\* no request served yet
NoResponse ==
    [op |-> "", status |-> 0, document_id |-> "", ids |-> {}, chunks |-> 0, file |-> FALSE]
\* app.py 27, 29, 32: the unique indexes of create_indexes
UniqueIndexes == {"document_id", "chunk_id", "embedding_id"}
IdleStore ==
    /\ unique = UniqueIndexes
    /\ gridfs = {}
    /\ db_docs = {}
    /\ db_chunks = {}
    /\ db_embeds = {}
    /\ resp = NoResponse
    /\ nops = 0
    /\ nok = 0
    /\ tmpfiles = {}
IdleEnv == IdleProc /\ IdleStore
IdleIngest ==
    /\ sec_i = 0
    /\ running_index = 0
    /\ chunk_docs = <<>>
    /\ doc_id = "doc_1"

(***************************************************************************)
(* SpecChunk: the chunker on its own, over every text, max_chars and       *)
(* overlap_chars.                                                          *)
(***************************************************************************)
InitChunk ==
    /\ pc = "chunk_loop"
    /\ text \in SeqsUpTo(TextChars, MaxLen)
    /\ max_chars \in 0..MaxChars
    /\ overlap \in (-1)..MaxOverlap
    /\ start = 0
    /\ chunks = <<>>
    /\ windows = <<>>
    /\ pieces = <<>>
    /\ IdleSec /\ IdleDocx /\ IdlePdf /\ IdleStyle /\ IdleIngest /\ IdleEnv

NextChunk ==
    \/ ChunkPassthrough
    \/ ChunkIter
    \/ ChunkLoopExit
    \/ ChunkReturn

SpecChunk == InitChunk /\ [][NextChunk]_vars

(***************************************************************************)
(* SpecExample: _chunk_text with the default configuration on texts of     *)
(* twice max_chars characters whose last space before offset max_chars     *)
(* lies in the second half of the first window.                            *)
(***************************************************************************)
\* lines 155-156: the defaults of processing.chunk.max_chars and
\* processing.chunk.overlap_chars
DefaultMaxChars == 1500
DefaultOverlap == 200

ExampleLen == 2 * DefaultMaxChars

\* offsets of the last space before offset DefaultMaxChars
ExampleSnaps ==
    {DefaultMaxChars \div 2 + 1, 900, 1149, 1150, 1300, DefaultMaxChars - 1}

\* offsets where a text may have further spaces
ExampleSpaces == {100, 1500, 1650, 1699, 2350}

\* offsets from which a text may be newlines to its end
ExampleTails == {DefaultMaxChars, ExampleLen}

\* the text with spaces at the offsets of S and newlines from offset nl on
ExampleText(S, nl) ==
    [i \in 1..ExampleLen |->
        IF (i - 1) \in S THEN SP ELSE IF i - 1 >= nl THEN NL ELSE "a"]

ExampleTexts ==
    {ExampleText({snap} \cup S, nl) :
        snap \in ExampleSnaps, S \in SUBSET ExampleSpaces, nl \in ExampleTails}

InitExample ==
    /\ pc = "chunk_loop"
    /\ text \in ExampleTexts
    /\ max_chars = DefaultMaxChars
    /\ overlap = DefaultOverlap
    /\ start = 0
    /\ chunks = <<>>
    /\ windows = <<>>
    /\ pieces = <<>>
    /\ IdleSec /\ IdleDocx /\ IdlePdf /\ IdleStyle /\ IdleIngest /\ IdleEnv

NextExample ==
    \/ ChunkIter
    \/ ChunkReturn

SpecExample == InitExample /\ [][NextExample]_vars

(***************************************************************************)
(* SpecStyle: level_from_style over style names.                           *)
(***************************************************************************)
InitStyle ==
    /\ pc = "style_call"
    /\ style \in StyleInputs
    /\ lvl = 0
    /\ IdleChunk /\ IdleCfg /\ IdleSec /\ IdleDocx /\ IdlePdf /\ IdleIngest /\ IdleEnv

NextStyle == StyleLevel

SpecStyle == InitStyle /\ [][NextStyle]_vars

(***************************************************************************)
(* SpecDocx: the DOCX sectionizer over paragraph sequences.                *)
(***************************************************************************)
InitDocx ==
    /\ pc = "docx_loop"
    /\ paragraphs \in DocxInputs
    /\ IdleChunk /\ IdleCfg /\ IdleSec /\ IdlePdf /\ IdleStyle /\ IdleIngest /\ IdleEnv

NextDocx ==
    \/ DocxParagraph
    \/ DocxReturn

SpecDocx == InitDocx /\ [][NextDocx]_vars

(***************************************************************************)
(* SpecPdf: the PDF sectionizer over line sequences.                       *)
(***************************************************************************)
InitPdf ==
    /\ pc = "pdf_enter"
    /\ pages \in PdfInputs
    /\ size_thr = 0
    /\ IdleChunk /\ IdleCfg /\ IdleSec /\ IdleDocx /\ IdleStyle /\ IdleIngest /\ IdleEnv

NextPdf ==
    \/ PdfEnter
    \/ PdfLine
    \/ PdfReturn

SpecPdf == InitPdf /\ [][NextPdf]_vars

(***************************************************************************)
(* SpecSec: both sectionizers, each started on one of its inputs.          *)
(***************************************************************************)
InitSec == InitDocx \/ InitPdf

NextSec == NextDocx \/ NextPdf

SpecSec == InitSec /\ [][NextSec]_vars

(***************************************************************************)
(* process_file (processor.py 21-47) and extract_pdf_native_text           *)
(* (pdf_native.py 16-125).  The file is what sniff_file and the extractors *)
(* see of it: its sniffed MIME type, its path and its page count; what an  *)
(* extractor reads from it, or that it fails on it, is chosen when the     *)
(* extractor runs.                                                         *)
(***************************************************************************)
SuffixDocx == <<".", "d", "o", "c", "x">>
SuffixPdf == <<".", "p", "d", "f">>
SuffixDoc == <<".", "d", "o", "c">>

\* the temporary file's path: a stem and the suffix of the uploaded name
PathStem == <<"/", "t">>
Suffixes ==
    {<<>>, SuffixDocx, <<".", "D", "O", "C", "X">>, SuffixPdf, <<".", "P", "d", "f">>,
     SuffixDoc, <<".", "t", "x", "t">>}
Paths == {PathStem \o x : x \in Suffixes}

\* str.endswith(suffix)
EndsWith(s, suffix) ==
    /\ Len(s) >= Len(suffix)
    /\ SubSeq(s, Len(s) - Len(suffix) + 1, Len(s)) = suffix

\* pdf_native.py 83
ImportErrorNoBackend == "ImportError: Install PyMuPDF or pdfplumber for PDF parsing"

NoteLegacyDoc == "Legacy .doc normalization to .docx required before extraction"
NoteUnsupported(mime) == <<"Unsupported MIME: ", mime>>

\* ProcessResult; note and has_heading_styles are <<>> when meta lacks the key
ProcessResult(mime, secs, note, hhs) ==
    [mime |-> mime, sections |-> secs, note |-> note, has_heading_styles |-> hhs]

\* processor.py 26-45: the branch process_file takes
Branch(mime, path) ==
    IF mime \in {MimeDocx, MimeXZip} \/ EndsWith(Lower(path), SuffixDocx) THEN "docx"
    ELSE IF mime = MimePdf \/ EndsWith(Lower(path), SuffixPdf) THEN "pdf"
    ELSE IF mime = MimeDoc \/ EndsWith(Lower(path), SuffixDoc) THEN "doc"
    ELSE "other"

\* what python-docx can read from a file: up to one paragraph
DocxSamples == SeqsUpTo([text : DocxTexts, style : DocxStyles], 1)

\* docx_fast.py 40-44
HasHeadingStyles(ps) ==
    \E i \in 1..Len(ps) :
        ps[i].style # <<>> /\ StartsWith(Lower(ps[i].style), HeadingWord)

\* the lines a backend reads from one page, their text already stripped
PdfLineSamples ==
    {[text |-> <<"H">>, size |-> 10, bold |-> FALSE],
     [text |-> <<"b">>, size |-> 9, bold |-> FALSE],
     [text |-> <<>>, size |-> 10, bold |-> FALSE]}
PageSamples == SeqsUpTo(PdfLineSamples, 1)

\* pdf_native.py 117: pdfplumber keeps only the lines with text
KeptLines(ls) == SelectSeq(ls, LAMBDA l : l.text # <<>>)

\* PageText, and the ghost field by: the backend that read the page
PageText(n, by, ls) == [page_num |-> n, by |-> by, lines |-> ls]

\* processor.py 36-40 and pdf_sectionizer.py 26-35: the lines of the pages in
\* the order the sectionizer visits them
RECURSIVE FlattenPages(_)
FlattenPages(pgs) ==
    IF pgs = <<>> THEN <<>>
    ELSE [i \in 1..Len(Head(pgs).lines) |->
             [page_num |-> Head(pgs).page_num,
              text     |-> Head(pgs).lines[i].text,
              size     |-> Head(pgs).lines[i].size,
              bold     |-> Head(pgs).lines[i].bold]]
         \o FlattenPages(Tail(pgs))

sectionVars == <<chunkVars, cfgVars, secVars, styleVars, ingestVars, storeVars>>

\* processor.py 22-29, 34, 41-47
ProcDispatch ==
    /\ pc = "proc_enter"
    /\ LET b == Branch(file.mime, file.path)
       IN  /\ pc' = CASE b = "docx" -> "docx_extract"
                      [] b = "pdf"  -> "pdf_primary_import"
                      [] OTHER      -> "proc_done"
           /\ result' = CASE b = "doc" ->
                               <<ProcessResult(file.mime, <<>>, <<NoteLegacyDoc>>, <<>>)>>
                          [] b = "other" ->
                               <<ProcessResult(file.mime, <<>>,
                                               <<NoteUnsupported(file.mime)>>, <<>>)>>
                          [] OTHER -> result
    /\ UNCHANGED <<file, backends, ran, ex_pages, raised, discarded>>
    /\ UNCHANGED <<sectionVars, docxVars, pdfVars>>

\* processor.py 30-33 with docx_fast.py 34-46: Document(path) raises, or the
\* paragraphs are read and sectionized
ProcDocx ==
    /\ pc = "docx_extract"
    /\ ran' = ran \cup {"docx"}
    /\ \/ /\ raised' = "docx_error"
          /\ pc' = "proc_raised"
          /\ UNCHANGED <<result, paragraphs>>
       \/ \E ps \in DocxSamples :
             /\ paragraphs' = ps
             /\ result' = <<ProcessResult(file.mime, sectionize_from_docx_paragraphs(ps),
                                          <<>>, <<HasHeadingStyles(ps)>>)>>
             /\ pc' = "proc_done"
             /\ UNCHANGED raised
    /\ UNCHANGED <<file, backends, ex_pages, discarded>>
    /\ UNCHANGED <<sectionVars, pdfVars>>

\* pdf_native.py 21-28: import fitz, pages = [], fitz.open(path); any exception
\* goes to the handler at line 78
PdfPrimaryImport ==
    /\ pc = "pdf_primary_import"
    /\ IF ~backends.fitz
       THEN /\ pc' = "pdf_fallback_import"
            /\ UNCHANGED <<ran, ex_pages>>
       ELSE /\ ran' = ran \cup {"fitz"}
            /\ ex_pages' = <<>>
            /\ pc' \in {"pdf_primary_loop", "pdf_fallback_import"}
    /\ UNCHANGED <<file, backends, result, raised, discarded>>
    /\ UNCHANGED <<sectionVars, docxVars, pdfVars>>

\* pdf_native.py 30-74: one page is read and appended, or reading it raises
PdfPrimaryPage ==
    /\ pc = "pdf_primary_loop"
    /\ Len(ex_pages) < file.npages
    /\ \/ /\ pc' = "pdf_fallback_import"
          /\ UNCHANGED ex_pages
       \/ \E ls \in PageSamples :
             /\ ex_pages' = Append(ex_pages, PageText(Len(ex_pages) + 1, "fitz", ls))
             /\ pc' = "pdf_primary_loop"
    /\ UNCHANGED <<file, backends, ran, result, raised, discarded>>
    /\ UNCHANGED <<sectionVars, docxVars, pdfVars>>

\* pdf_native.py 75-77
PdfPrimaryReturn ==
    /\ pc = "pdf_primary_loop"
    /\ Len(ex_pages) = file.npages
    /\ pc' = "pdf_sectionize"
    /\ UNCHANGED procVars
    /\ UNCHANGED <<sectionVars, docxVars, pdfVars>>

\* PdfFallbackImport keeping the pages the first backend had appended
PdfFallbackImportKeepPages ==
    /\ pc = "pdf_fallback_import"
    /\ IF ~backends.plumber
       THEN /\ raised' = ImportErrorNoBackend
            /\ pc' = "proc_raised"
            /\ UNCHANGED <<ran, ex_pages, discarded>>
       ELSE /\ ran' = ran \cup {"pdfplumber"}
            /\ UNCHANGED <<ex_pages, discarded>>
            /\ \/ /\ raised' = "pdfplumber_error"
                  /\ pc' = "proc_raised"
               \/ /\ pc' = "pdf_fallback_loop"
                  /\ UNCHANGED raised
    /\ UNCHANGED <<file, backends, result>>
    /\ UNCHANGED <<sectionVars, docxVars, pdfVars>>

\* pdf_native.py 78-86: import pdfplumber or raise ImportError; pages = [];
\* pdfplumber.open(path), whose exception leaves the call
PdfFallbackImport ==
    /\ pc = "pdf_fallback_import"
    /\ IF ~backends.plumber
       THEN /\ raised' = ImportErrorNoBackend
            /\ pc' = "proc_raised"
            /\ UNCHANGED <<ran, ex_pages, discarded>>
       ELSE /\ ran' = ran \cup {"pdfplumber"}
            /\ ex_pages' = <<>>
            /\ discarded' = ex_pages
            /\ \/ /\ raised' = "pdfplumber_error"
                  /\ pc' = "proc_raised"
               \/ /\ pc' = "pdf_fallback_loop"
                  /\ UNCHANGED raised
    /\ UNCHANGED <<file, backends, result>>
    /\ UNCHANGED <<sectionVars, docxVars, pdfVars>>

\* pdf_native.py 87-124: one page is read and appended, or reading it raises
\* and the exception leaves the call
PdfFallbackPage ==
    /\ pc = "pdf_fallback_loop"
    /\ Len(ex_pages) < file.npages
    /\ \/ /\ raised' = "pdfplumber_error"
          /\ pc' = "proc_raised"
          /\ UNCHANGED ex_pages
       \/ \E ls \in PageSamples :
             /\ ex_pages' = Append(ex_pages,
                                   PageText(Len(ex_pages) + 1, "pdfplumber", KeptLines(ls)))
             /\ pc' = "pdf_fallback_loop"
             /\ UNCHANGED raised
    /\ UNCHANGED <<file, backends, ran, result, discarded>>
    /\ UNCHANGED <<sectionVars, docxVars, pdfVars>>

\* pdf_native.py 125
PdfFallbackReturn ==
    /\ pc = "pdf_fallback_loop"
    /\ Len(ex_pages) = file.npages
    /\ pc' = "pdf_sectionize"
    /\ UNCHANGED procVars
    /\ UNCHANGED <<sectionVars, docxVars, pdfVars>>

\* processor.py 35-40, 47
ProcPdfSectionize ==
    /\ pc = "pdf_sectionize"
    /\ pages' = FlattenPages(ex_pages)
    /\ result' = <<ProcessResult(file.mime, sectionize_pdf_lines(FlattenPages(ex_pages)),
                                 <<>>, <<>>)>>
    /\ pc' = "proc_done"
    /\ UNCHANGED <<file, backends, ran, ex_pages, raised, size_thr, discarded>>
    /\ UNCHANGED <<sectionVars, docxVars>>

(***************************************************************************)
(* SpecProcess: process_file on one file.                                  *)
(***************************************************************************)
InitProcess ==
    /\ pc = "proc_enter"
    /\ file \in [mime : Mimes, path : Paths, npages : 0..MaxPages]
    /\ backends \in [fitz : BOOLEAN, plumber : BOOLEAN]
    /\ ran = {}
    /\ ex_pages = <<>>
    /\ result = <<>>
    /\ raised = ""
    /\ discarded = <<>>
    /\ IdleChunk /\ IdleCfg /\ IdleSec /\ IdleDocx /\ IdlePdf /\ IdleStyle /\ IdleIngest
    /\ IdleStore

NextProcess ==
    \/ ProcDispatch
    \/ ProcDocx
    \/ PdfPrimaryImport
    \/ PdfPrimaryPage
    \/ PdfPrimaryReturn
    \/ PdfFallbackImport
    \/ PdfFallbackPage
    \/ PdfFallbackReturn
    \/ ProcPdfSectionize

SpecProcess == InitProcess /\ [][NextProcess]_vars

(***************************************************************************)
(* SpecIngest: ingest_upload chunking the sections process_file returned.  *)
(***************************************************************************)
InitIngest ==
    /\ pc = "ingest_loop"
    /\ sections \in {sectionize_from_docx_paragraphs(ps) : ps \in DocxInputs}
                    \cup {sectionize_pdf_lines(lns) : lns \in PdfInputs}
    /\ curr = <<>>
    /\ sid = 0
    /\ in_i = 0
    /\ max_chars \in 0..MaxChars
    /\ overlap \in 0..MaxOverlap
    /\ IdleChunk /\ IdleDocx /\ IdlePdf /\ IdleStyle /\ IdleIngest /\ IdleEnv

NextIngest ==
    \/ IngestSection
    \/ ChunkPassthrough
    \/ ChunkIter
    \/ ChunkLoopExit
    \/ ChunkReturn
    \/ IngestPieces
    \/ IngestChunked

SpecIngest == InitIngest /\ [][NextIngest]_vars

(***************************************************************************)
(* The store and the request handlers that write to it: ingest_api.py,     *)
(* document_metadata_api.py, document_chunks_api.py, embeddings_api.py,    *)
(* over the collections and indexes of app.py 21-36 and GridFS.  A handler *)
(* is one step; requests are served one after the other.                   *)
(***************************************************************************)
DocIds == {"d1", "d2"}
EmbeddingIds == {"e1", "e2"}

\* chunk ids a client names in POST /chunks and POST /embeddings
ChunkIdSamples == {SecId(1) \o <<"_c", 1>>, SecId(2) \o <<"_c", 1>>}

\* processing.chunk.max_chars and processing.chunk.overlap_chars of the
\* deployment: the defaults, or a small window
StoreConfigs == {<<DefaultMaxChars, DefaultOverlap>>, <<2, 1>>}

\* the paragraphs of the uploaded DOCX files
StoreParas ==
    {<<[text |-> <<"a">>, style |-> StyleHeading1]>>,
     <<[text |-> <<"a">>, style |-> StyleHeading1],
       [text |-> <<SP, "b", SP>>, style |-> StyleNormal],
       [text |-> <<"a">>, style |-> StyleHeading9]>>}

\* what process_file returns for the uploads of the model
UploadResults ==
    {ProcessResult(MimeDoc, <<>>, <<NoteLegacyDoc>>, <<>>)}
        \cup {ProcessResult(MimeDocx, sectionize_from_docx_paragraphs(ps), <<>>,
                            <<HasHeadingStyles(ps)>>) : ps \in StoreParas}

\* <<>> when process_file raises, else <<its result>>
UploadOutcomes == {<<>>} \cup {<<r>> : r \in UploadResults}

\* _chunk_text, lines 139-152: the loop from offset st on; acc is chunks
RECURSIVE ChunkLoop(_, _, _, _, _)
ChunkLoop(t, m, ov, st, acc) ==
    IF st >= Len(t) THEN acc
    ELSE LET end  == WindowEnd(t, st, m)
             acc2 == Append(acc, Strip(Slice(t, st, end)))
         IN  IF end >= Len(t) THEN acc2
             ELSE ChunkLoop(t, m, ov, NextStart(end, ov), acc2)

\* _chunk_text, lines 133-153
chunk_text(t, m, ov) ==
    IF m <= 0 THEN <<t>> ELSE NonEmpty(ChunkLoop(t, m, ov, 0, <<>>))

\* lines 158-180: chunk_docs of the sections secs; r is running_index
RECURSIVE AllChunkDocs(_, _, _, _, _)
AllChunkDocs(doc, secs, m, ov, r) ==
    IF secs = <<>> THEN <<>>
    ELSE LET ps == chunk_text(BaseText(Head(secs)), m, ov)
         IN  ChunkDocsOf(doc, Head(secs), ps, r)
                 \o AllChunkDocs(doc, Tail(secs), m, ov, r + Len(ps))

\* the unique index on document_metadata.document_id never refusing
DocIdTakenNever(coll, d) == FALSE

\* app.py 27: the unique index on document_metadata.document_id refuses d
DocIdTaken(coll, d) == \E m \in coll : m.document_id = d

\* app.py 29: the unique index on document_chunks.chunk_id refuses c
ChunkIdTaken(coll, c) == \E x \in coll : x.chunk_id = c

\* app.py 32: the unique index on embeddings.embedding_id refuses e
EmbeddingIdTaken(coll, e) == \E x \in coll : x.embedding_id = e

\* a unique index on field, when start-up created it, refuses a record whose
\* value is taken
Refused(field, taken) == field \in unique /\ taken

\* mongodb_repo.py 197: insert_many inserts in order and stops at the first
\* record the unique index refuses; the records before it stay inserted
RECURSIVE InsertMany(_, _)
InsertMany(coll, docs) ==
    IF docs = <<>> THEN [coll |-> coll, ok |-> TRUE]
    ELSE IF Refused("chunk_id", ChunkIdTaken(coll, Head(docs).chunk_id))
         THEN [coll |-> coll, ok |-> FALSE]
    ELSE InsertMany(coll \cup {Head(docs)}, Tail(docs))

Response(op, status, d, ids, n, f) ==
    [op |-> op, status |-> status, document_id |-> d, ids |-> ids, chunks |-> n,
     file |-> f]

\* The requests a run serves.  After a start-up that left the chunk_id index
\* out, a run is followed one request further: its shortest run with two
\* documents sharing a chunk id, an embedding and a cascade delete has four.
OpsLimit == IF "chunk_id" \in unique THEN MaxOps ELSE MaxOps + 1

\* what a store action leaves alone
servedVars == <<chunkVars, cfgVars, secVars, docxVars, pdfVars, styleVars, ingestVars,
               unique>>
extractVars == <<file, backends, ran, ex_pages, discarded>>

\* ingest_upload, lines 85-93: what buffering the upload does.  "buffered":
\* the temporary file is written; "no_temp_file": NamedTemporaryFile raises;
\* "write_failed": the file is created and file.read() or tmp.write raises
Bufferings == {"buffered", "no_temp_file", "write_failed"}

\* lines 200-204: os.remove(tmp_path); fault: it raises, which 203-204 swallow
TmpAfterRemove(tmp, name, fault) == IF fault THEN tmp ELSE tmp \ {name}

\* ingest_upload, lines 74-204, for document id d and an upload on which
\* process_file does u; the file id and the temporary file's name are the
\* request's number
IngestUpload ==
    /\ pc = "serving"
    /\ nops < OpsLimit
    /\ \E b \in Bufferings :
          IF b # "buffered"
          THEN /\ tmpfiles' = IF b = "write_failed" THEN tmpfiles \cup {nops + 1}
                                                    ELSE tmpfiles
               /\ resp' = Response("ingest_upload", 400, "", {}, 0, FALSE)
               /\ UNCHANGED <<gridfs, db_docs, db_chunks, result, raised>>
          ELSE \E d \in DocIds, u \in UploadOutcomes, rmfault \in BOOLEAN :
                  LET fid   == nops + 1
                      secs  == u[1].sections
                      docs  == AllChunkDocs(d, secs, max_chars, overlap, 0)
                      ins   == InsertMany(db_chunks, docs)
                      meta  == [document_id |-> d, num_chunks |-> Len(secs),
                                file_id |-> fid]
                      fail  == Response("ingest_upload", 500, d, {}, 0, TRUE)
                  IN  /\ gridfs' = gridfs \cup {[file_id |-> fid, document_id |-> d]}
                      /\ result' = u
                      /\ IF u = <<>>
                         THEN /\ raised' = "processing_failed"
                              /\ resp' = fail
                              /\ UNCHANGED <<db_docs, db_chunks>>
                         ELSE /\ raised' = ""
                              /\ IF Refused("document_id", DocIdTaken(db_docs, d))
                                 THEN /\ resp' = fail
                                      /\ UNCHANGED <<db_docs, db_chunks>>
                                 ELSE /\ db_docs' = db_docs \cup {meta}
                                      /\ db_chunks' = ins.coll
                                      /\ resp' = IF ins.ok
                                                 THEN Response("ingest_upload", 200, d, {d},
                                                               Len(docs), TRUE)
                                                 ELSE fail
                      /\ tmpfiles' = TmpAfterRemove(tmpfiles \cup {nops + 1}, nops + 1,
                                                    rmfault)
    /\ nops' = nops + 1
    /\ nok' = IF resp'.status = 200 THEN nok + 1 ELSE nok
    /\ UNCHANGED <<pc, db_embeds, servedVars, extractVars>>

\* _cascade_delete_document, lines 31-70, on the store st = [docs, chunks,
\* embeds, files]; fault: fs.delete raises, which lines 56-57 swallow
Cascade(st, d, fault) ==
    IF ~DocIdTaken(st.docs, d) THEN st
    ELSE LET meta      == CHOOSE m \in st.docs : m.document_id = d
             chunk_ids == {c.chunk_id : c \in {x \in st.chunks : x.document_id = d}}
         IN  [docs   |-> {m \in st.docs : m.document_id # d},
              chunks |-> {c \in st.chunks : c.document_id # d},
              embeds |-> {e \in st.embeds : e.document_chunk_id \notin chunk_ids},
              files  |-> IF meta.file_id = 0 \/ fault THEN st.files
                         ELSE {f \in st.files : f.file_id # meta.file_id}]

\* lines 368-369 and 400-401: the cascade for every matched id
RECURSIVE CascadeAll(_, _, _)
CascadeAll(st, ids, fault) ==
    IF ids = {} THEN st
    ELSE LET d == CHOOSE x \in ids : TRUE
         IN  CascadeAll(Cascade(st, d, fault), ids \ {d}, fault)

Store == [docs |-> db_docs, chunks |-> db_chunks, embeds |-> db_embeds, files |-> gridfs]

SetStore(st) ==
    /\ db_docs' = st.docs
    /\ db_chunks' = st.chunks
    /\ db_embeds' = st.embeds
    /\ gridfs' = st.files

\* delete_document_cascade, lines 308-318
DeleteDocumentCascade ==
    /\ pc = "serving"
    /\ nops < OpsLimit
    /\ \E d \in DocIds, fault \in BOOLEAN :
          IF ~DocIdTaken(db_docs, d)
          THEN /\ resp' = Response("delete_document_cascade", 404, d, {}, 0, FALSE)
               /\ UNCHANGED <<gridfs, db_docs, db_chunks, db_embeds>>
          ELSE /\ SetStore(Cascade(Store, d, fault))
               /\ resp' = Response("delete_document_cascade", 200, d, {d},
                                   Cardinality({c \in db_chunks : c.document_id = d}),
                                   ~fault)
    /\ nops' = nops + 1
    /\ UNCHANGED <<pc, servedVars, procVars, uploadVars>>

\* delete_documents_by_named_query and delete_documents_by_query, lines
\* 338-404, without dry_run: the query matches the metadata records of ids
DeleteDocumentsByQuery ==
    /\ pc = "serving"
    /\ nops < OpsLimit
    /\ \E ids \in SUBSET {m.document_id : m \in db_docs}, fault \in BOOLEAN :
          /\ SetStore(CascadeAll(Store, ids, fault))
          /\ resp' = Response("delete_documents_by_query", 200, "", ids,
                              Cardinality({c \in db_chunks : c.document_id \in ids}),
                              ~fault)
    /\ nops' = nops + 1
    /\ UNCHANGED <<pc, servedVars, procVars, uploadVars>>

\* document_metadata_api.py 33-40
CreateDocument ==
    /\ pc = "serving"
    /\ nops < OpsLimit
    /\ \E d \in DocIds :
          IF Refused("document_id", DocIdTaken(db_docs, d))
          THEN /\ resp' = Response("create_document", 500, d, {}, 0, FALSE)
               /\ UNCHANGED db_docs
          ELSE /\ db_docs' = db_docs \cup {[document_id |-> d, num_chunks |-> 0,
                                            file_id |-> 0]}
               /\ resp' = Response("create_document", 200, d, {d}, 0, FALSE)
    /\ nops' = nops + 1
    /\ UNCHANGED <<pc, gridfs, db_chunks, db_embeds, servedVars, procVars, uploadVars>>

\* document_metadata_api.py 66-75
DeleteDocument ==
    /\ pc = "serving"
    /\ nops < OpsLimit
    /\ \E d \in DocIds :
          /\ db_docs' = {m \in db_docs : m.document_id # d}
          /\ resp' = Response("delete_document",
                              IF DocIdTaken(db_docs, d) THEN 200 ELSE 404, d, {}, 0, FALSE)
    /\ nops' = nops + 1
    /\ UNCHANGED <<pc, gridfs, db_chunks, db_embeds, servedVars, procVars, uploadVars>>

\* document_chunks_api.py 32-39
CreateChunk ==
    /\ pc = "serving"
    /\ nops < OpsLimit
    /\ \E d \in DocIds, c \in ChunkIdSamples :
          IF Refused("chunk_id", ChunkIdTaken(db_chunks, c))
          THEN /\ resp' = Response("create_chunk", 500, d, {}, 0, FALSE)
               /\ UNCHANGED db_chunks
          ELSE /\ db_chunks' = db_chunks \cup
                                  {[document_id |-> d, chunk_id |-> c, chunk_index |-> 0,
                                    content |-> <<"a">>, metadata |-> <<>>]}
               /\ resp' = Response("create_chunk", 200, d, {}, 1, FALSE)
    /\ nops' = nops + 1
    /\ UNCHANGED <<pc, gridfs, db_docs, db_embeds, servedVars, procVars, uploadVars>>

\* document_chunks_api.py 68-77
DeleteChunk ==
    /\ pc = "serving"
    /\ nops < OpsLimit
    /\ \E c \in ChunkIdSamples :
          /\ db_chunks' = {x \in db_chunks : x.chunk_id # c}
          /\ resp' = Response("delete_chunk",
                              IF ChunkIdTaken(db_chunks, c) THEN 200 ELSE 404, "", {}, 0,
                              FALSE)
    /\ nops' = nops + 1
    /\ UNCHANGED <<pc, gridfs, db_docs, db_embeds, servedVars, procVars, uploadVars>>

\* embeddings_api.py 32-39
CreateEmbedding ==
    /\ pc = "serving"
    /\ nops < OpsLimit
    /\ \E e \in EmbeddingIds, c \in ChunkIdSamples :
          IF Refused("embedding_id", EmbeddingIdTaken(db_embeds, e))
          THEN /\ resp' = Response("create_embedding", 500, "", {}, 0, FALSE)
               /\ UNCHANGED db_embeds
          ELSE /\ db_embeds' = db_embeds \cup {[embedding_id |-> e, document_chunk_id |-> c]}
               /\ resp' = Response("create_embedding", 200, "", {}, 0, FALSE)
    /\ nops' = nops + 1
    /\ UNCHANGED <<pc, gridfs, db_docs, db_chunks, servedVars, procVars, uploadVars>>

\* embeddings_api.py 68-77
DeleteEmbedding ==
    /\ pc = "serving"
    /\ nops < OpsLimit
    /\ \E e \in EmbeddingIds :
          /\ db_embeds' = {x \in db_embeds : x.embedding_id # e}
          /\ resp' = Response("delete_embedding",
                              IF EmbeddingIdTaken(db_embeds, e) THEN 200 ELSE 404, "", {},
                              0, FALSE)
    /\ nops' = nops + 1
    /\ UNCHANGED <<pc, gridfs, db_docs, db_chunks, servedVars, procVars, uploadVars>>

(***************************************************************************)
(* SpecStore: the application after start-up, its store empty and its      *)
(* indexes created, serving up to MaxOps requests.                         *)
(***************************************************************************)
InitStore ==
    /\ pc = "serving"
    /\ \E c \in StoreConfigs : max_chars = c[1] /\ overlap = c[2]
    /\ IdleChunk /\ IdleSec /\ IdleDocx /\ IdlePdf /\ IdleStyle /\ IdleIngest
    /\ IdleEnv

NextStore ==
    \/ IngestUpload
    \/ DeleteDocumentCascade
    \/ DeleteDocumentsByQuery
    \/ CreateDocument
    \/ DeleteDocument
    \/ CreateChunk
    \/ DeleteChunk
    \/ CreateEmbedding
    \/ DeleteEmbedding

SpecStore == InitStore /\ [][NextStore]_vars

(***************************************************************************)
(* SpecStoreBare: the application after a start-up whose create_indexes    *)
(* failed at its second call (app.py 29): the document_id index exists,    *)
(* the chunk_id and embedding_id indexes do not, and lines 34-36 let the   *)
(* application serve all the same.  A collection is a set: records equal   *)
(* in every field are kept once.                                           *)
(***************************************************************************)
InitStoreBare ==
    /\ pc = "serving"
    /\ \E c \in StoreConfigs : max_chars = c[1] /\ overlap = c[2]
    /\ IdleChunk /\ IdleSec /\ IdleDocx /\ IdlePdf /\ IdleStyle /\ IdleIngest
    /\ IdleProc
    /\ unique = {"document_id"}
    /\ gridfs = {}
    /\ db_docs = {}
    /\ db_chunks = {}
    /\ db_embeds = {}
    /\ resp = NoResponse
    /\ nops = 0
    /\ nok = 0
    /\ tmpfiles = {}

SpecStoreBare == InitStoreBare /\ [][NextStore]_vars

(***************************************************************************)
(* Properties of the chunker (SpecChunk).                                  *)
(***************************************************************************)
\* C1: with max_chars > 0, every piece the chunker appends or returns has at
\* most max_chars characters.
C1_PieceWithinMax ==
    max_chars > 0 =>
        /\ \A i \in 1..Len(chunks) : Len(chunks[i]) <= max_chars
        /\ \A i \in 1..Len(pieces) : Len(pieces[i]) <= max_chars

\* C1 witness: a text longer than max_chars was chunked into several pieces,
\* one of them exactly max_chars long.
C1_Witness ==
    /\ pc = "chunk_done"
    /\ max_chars > 0
    /\ Len(text) > max_chars
    /\ Len(pieces) >= 2
    /\ \E i \in 1..Len(pieces) : Len(pieces[i]) = max_chars

\* C2: for positive max_chars and overlap_chars, start strictly increases from
\* one loop iteration to the next.
C2_StartIncreases ==
    [][(pc = "chunk_loop" /\ pc' = "chunk_loop" /\ max_chars > 0 /\ overlap > 0)
         => start' > start]_vars

\* C3: for max_chars > 0 and overlap_chars >= 0, when the chunker returns, every
\* non-whitespace offset of the text lies in the window of an emitted piece,
\* and every piece is made of characters of the text.
C3_NoTextLost ==
    (pc = "chunk_done" /\ max_chars > 0 /\ overlap >= 0) =>
        /\ \A i \in 0..(Len(text) - 1) :
              text[i + 1] \notin Whitespace =>
                 \E k \in 1..Len(windows) :
                    /\ chunks[k] # <<>>
                    /\ windows[k][1] <= i
                    /\ i < windows[k][2]
        /\ \A k \in 1..Len(pieces) : \A j \in 1..Len(pieces[k]) :
              \E i \in 1..Len(text) : text[i] = pieces[k][j]

(***************************************************************************)
(* Properties of the chunk records (SpecIngest).                           *)
(***************************************************************************)
\* u is a contiguous substring of t
IsSubstring(u, t) ==
    \E a \in 0..(Len(t) - Len(u)) : SubSeq(t, a + 1, a + Len(u)) = u

\* title, or title + blank line + body when the body is non-empty
CombinedText(sec) ==
    IF sec.text = <<>> THEN sec.title ELSE sec.title \o <<NL, NL>> \o sec.text

\* the section a chunk record was cut from, by the section_id in its chunk_id
SectionOfDoc(d) ==
    CHOOSE k \in 1..Len(sections) : sections[k].section_id = SubSeq(d.chunk_id, 1, 2)

\* C4: every chunk record's content is non-empty, has no leading or trailing
\* whitespace, and is a contiguous substring of its section's combined text.
C4_ChunkIsTrimmedSubstring ==
    \A i \in 1..Len(chunk_docs) :
        LET c == chunk_docs[i].content
        IN  /\ c # <<>>
            /\ c[1] \notin Whitespace
            /\ c[Len(c)] \notin Whitespace
            /\ \E k \in 1..Len(sections) :
                  /\ sections[k].section_id = SubSeq(chunk_docs[i].chunk_id, 1, 2)
                  /\ IsSubstring(c, CombinedText(sections[k]))

\* C4 witness: a section with a body was cut into several records, one of them
\* cut from a window that ended in whitespace.
C4_Witness ==
    /\ pc = "ingest_chunked"
    /\ max_chars > 0
    /\ \E i \in 1..Len(chunk_docs) :
          LET sec == sections[SectionOfDoc(chunk_docs[i])]
          IN  /\ sec.text # <<>>
              /\ chunk_docs[i].content # CombinedText(sec)
              /\ IsSubstring(chunk_docs[i].content \o <<NL>>, CombinedText(sec))

\* C5: the chunk_index of the i-th chunk record (from 1) is i - 1, and the
\* records follow the sections in order, then the pieces in order.
C5_ChunkIndexSequential ==
    /\ \A i \in 1..Len(chunk_docs) : chunk_docs[i].chunk_index = i - 1
    /\ \A i \in 1..(Len(chunk_docs) - 1) :
          LET a == chunk_docs[i]
              b == chunk_docs[i + 1]
          IN  \/ /\ SectionOfDoc(a) = SectionOfDoc(b)
                 /\ b.chunk_id[4] = a.chunk_id[4] + 1
              \/ /\ SectionOfDoc(a) < SectionOfDoc(b)
                 /\ b.chunk_id[4] = 1

\* C5 witness: two sections of several pieces each; the second section's first
\* record continues the count.
C5_Witness ==
    /\ pc = "ingest_chunked"
    /\ \E i \in 2..(Len(chunk_docs) - 1) :
          /\ SectionOfDoc(chunk_docs[i - 1]) = 1
          /\ chunk_docs[i - 1].chunk_id[4] >= 2
          /\ SectionOfDoc(chunk_docs[i]) = 2
          /\ SectionOfDoc(chunk_docs[i + 1]) = 2
          /\ chunk_docs[i].chunk_index = i - 1

(***************************************************************************)
(* Properties of level_from_style (SpecStyle).                             *)
(***************************************************************************)
\* the offsets [a, b] of the words of s: maximal runs without whitespace
IsWord(s, a, b) ==
    /\ 1 <= a /\ a <= b /\ b <= Len(s)
    /\ \A i \in a..b : s[i] \notin Whitespace
    /\ (a = 1 \/ s[a - 1] \in Whitespace)
    /\ (b = Len(s) \/ s[b + 1] \in Whitespace)

\* s is "heading", one space, and an integer
IsHeadingSpaceN(s) ==
    /\ StartsWith(s, HeadingWord \o <<SP>>)
    /\ IntOk(SubSeq(s, 9, Len(s)))

\* s is "heading" immediately followed by digits
IsHeadingN(s) ==
    /\ StartsWith(s, HeadingWord)
    /\ IsDigit(SubSeq(s, 8, Len(s)))

DocxHeadings ==
    {i \in 1..Len(paragraphs) :
        level_from_style(paragraphs[i].style) <= 6 /\ Strip(paragraphs[i].text) # <<>>}

\* the k-th smallest element of a set of numbers
KthOf(S, k) == CHOOSE x \in S : Cardinality({y \in S : y < x}) = k - 1

\* the trimmed non-empty texts of paragraphs lo..hi, joined by newlines
RECURSIVE JoinedBody(_, _)
JoinedBody(lo, hi) ==
    IF lo > hi THEN <<>>
    ELSE LET t    == Strip(paragraphs[lo].text)
             rest == JoinedBody(lo + 1, hi)
         IN  IF t = <<>> THEN rest
             ELSE IF rest = <<>> THEN t
             ELSE t \o <<NL>> \o rest

\* C8: the returned sections are, in order, one per heading paragraph with
\* non-empty text; the title is the heading's trimmed text, the text the
\* newline-join of the non-empty body paragraphs up to the next heading;
\* paragraphs before the first heading are in no section.
C8_DocxSections ==
    pc = "docx_done" =>
        /\ Len(sections) = Cardinality(DocxHeadings)
        /\ \A k \in 1..Len(sections) :
              LET h    == KthOf(DocxHeadings, k)
                  next == IF k < Len(sections) THEN KthOf(DocxHeadings, k + 1)
                          ELSE Len(paragraphs) + 1
              IN  /\ sections[k].title = Strip(paragraphs[h].text)
                  /\ sections[k].level = level_from_style(paragraphs[h].style)
                  /\ sections[k].text = JoinedBody(h + 1, next - 1)

\* C8 witness: body text before the first heading was dropped, and a section
\* holds a body paragraph.
C8_Witness ==
    /\ pc = "docx_done"
    /\ Len(paragraphs) >= 3
    /\ 1 \notin DocxHeadings
    /\ Strip(paragraphs[1].text) # <<>>
    /\ Len(sections) = 1
    /\ sections[1].text # <<>>

(***************************************************************************)
(* Properties of the PDF sectionizer (SpecPdf).                            *)
(***************************************************************************)
PositiveLines == {i \in 1..Len(pages) : pages[i].size > 0}

\* the element at index floor(0.85 * (n - 1)) of the ascending list of the n
\* positive sizes: the size v with at most that many sizes below it and more
\* than that many sizes up to it; 0 when there is no positive size
RankThreshold ==
    LET n   == Cardinality(PositiveLines)
        idx == (85 * (n - 1)) \div 100
    IN  IF n = 0 THEN 0
        ELSE CHOOSE v \in {pages[i].size : i \in PositiveLines} :
                /\ Cardinality({i \in PositiveLines : pages[i].size < v}) <= idx
                /\ Cardinality({i \in PositiveLines : pages[i].size <= v}) > idx

\* line i has non-empty text and passes the heading test against RankThreshold
HeadingLine(i) ==
    /\ Strip(pages[i].text) # <<>>
    /\ \/ pages[i].size >= RankThreshold
       \/ /\ pages[i].bold
          /\ RankThreshold > 0
          /\ 10 * pages[i].size >= 9 * RankThreshold

BodyLine(i) == Strip(pages[i].text) # <<>> /\ ~HeadingLine(i)

\* C6: when no line has a positive size, the sectionizer returns at most one
\* section, the level-3 Preamble, and no level-2 section was opened.
C6_NoPositiveSizeNoHeading ==
    (pc \in {"pdf_loop", "pdf_done"} /\ PositiveLines = {}) =>
        /\ Len(sections \o curr) <= 1
        /\ \A k \in 1..Len(sections \o curr) :
              /\ (sections \o curr)[k].level = 3
              /\ (sections \o curr)[k].title = Preamble

\* C9: a line with non-empty text opens a new level-2 section, closing and
\* emitting the open one, exactly when it passes the heading test against the
\* rank threshold of the whole document.
C9_HeadingIffThreshold ==
    [][(pc = "pdf_loop" /\ in_i' = in_i + 1 /\ Strip(pages[in_i + 1].text) # <<>>) =>
          (HeadingLine(in_i + 1) <=>
              /\ sid' = sid + 1
              /\ sections' = sections \o curr
              /\ curr' = <<Section(SecId(sid + 1), 2, Strip(pages[in_i + 1].text), <<>>,
                                   pages[in_i + 1].page_num, pages[in_i + 1].page_num)>>)]_vars

\* C9 witness: a bold line smaller than the threshold, but within a tenth of
\* it, opened a level-2 section and closed the open one.
C9_Witness ==
    /\ pc = "pdf_loop"
    /\ in_i >= 2
    /\ size_thr > 0
    /\ pages[in_i].bold
    /\ pages[in_i].size < size_thr
    /\ sections # <<>>
    /\ curr = <<Section(SecId(sid), 2, Strip(pages[in_i].text), <<>>,
                        pages[in_i].page_num, pages[in_i].page_num)>>

\* the body lines before the first heading line
PreambleLines ==
    {i \in 1..Len(pages) : BodyLine(i) /\ \A j \in 1..i : ~HeadingLine(j)}

\* the trimmed texts of the lines of S among lo..hi, joined by newlines
RECURSIVE JoinedLines(_, _, _)
JoinedLines(S, lo, hi) ==
    IF lo > hi THEN <<>>
    ELSE LET rest == JoinedLines(S, lo + 1, hi)
         IN  IF lo \notin S THEN rest
             ELSE IF rest = <<>> THEN Strip(pages[lo].text)
             ELSE Strip(pages[lo].text) \o <<NL>> \o rest

\* C10: the body lines before the first heading are kept, in order, in one
\* level-3 section titled Preamble; it is the first returned section, sec_1,
\* and every other returned section has level 2.
C10_PreambleFirstOnly ==
    pc = "pdf_done" =>
        /\ \A k \in 2..Len(sections) : sections[k].level = 2
        /\ IF PreambleLines # {}
           THEN /\ sections # <<>>
                /\ sections[1].level = 3
                /\ sections[1].title = Preamble
                /\ sections[1].section_id = SecId(1)
                /\ sections[1].text = JoinedLines(PreambleLines, 1, Len(pages))
           ELSE \A k \in 1..Len(sections) : sections[k].level = 2

\* C10 witness: two body lines, then a heading: the Preamble holds both lines
\* and a level-2 section follows it.
C10_Witness ==
    /\ pc = "pdf_done"
    /\ Cardinality(PreambleLines) >= 2
    /\ Len(sections) = 2
    /\ sections[1].level = 3
    /\ Len(sections[1].text) = 3
    /\ sections[2].level = 2

\* the lines of lns whose trimmed text is not empty, in order
NonBlankLines(lns) == SelectSeq(lns, LAMBDA l : Strip(l.text) # <<>>)

\* C11: lines whose text is empty or whitespace have no effect on the PDF
\* sectionizer: the sections returned for a document are those returned for
\* the same document with these lines removed, whatever sizes they carry.
C11_BlankLinesNoEffect ==
    pc = "pdf_done" => sections = sectionize_pdf_lines(NonBlankLines(pages))

(***************************************************************************)
(* Properties of both sectionizers (SpecSec).                              *)
(***************************************************************************)
SecLooping == pc \in {"docx_loop", "pdf_loop"}
SecReturned == pc \in {"docx_done", "pdf_done"}

\* C12: in both sectionizers the k-th emitted section has id sec_k, so ids
\* are unique and increase in emission order, and every allocated id belongs
\* to an emitted section: while the loop runs the ids allocated are those of
\* the closed sections and of the open one, and on return they are exactly
\* the ids of the returned sections.
C12_SectionIdsSequential ==
    /\ \A k \in 1..Len(sections) : sections[k].section_id = SecId(k)
    /\ SecLooping =>
          /\ sid = Len(sections) + Len(curr)
          /\ curr # <<>> => curr[1].section_id = SecId(sid)
    /\ SecReturned => sid = Len(sections)

\* C12 witness: the PDF sectionizer returned two sections, the Preamble and
\* a heading's section, from a document that also has a blank line.
C12_Witness ==
    /\ pc = "pdf_done"
    /\ Len(sections) = 2
    /\ sections[1].level = 3
    /\ sections[2].section_id = SecId(2)
    /\ \E i \in 1..Len(pages) : Strip(pages[i].text) = <<>>

\* line i opens a section: it is not blank and it is a heading under the
\* document's threshold, or it is the first non-blank line of the document
OpensSection(i) ==
    /\ Strip(pages[i].text) # <<>>
    /\ \/ is_heading(pages[i].size, pages[i].bold, size_thr)
       \/ \A j \in 1..(i - 1) : Strip(pages[j].text) = <<>>

Openers == {i \in 1..Len(pages) : OpensSection(i)}

\* the k-th opener in document order
KthOpener(k) ==
    CHOOSE i \in Openers : Cardinality({j \in Openers : j <= i}) = k

\* the non-blank lines of the section opened at line o: from o up to the
\* line before the next opener
LinesOfOpener(o) ==
    {i \in o..Len(pages) :
        /\ Strip(pages[i].text) # <<>>
        /\ \A j \in Openers : j > o => i < j}

\* C13: every emitted section has page_start <= page_end, whatever the order
\* of the page numbers; a PDF section starts on the page of the line that
\* opened it and ends on the largest page number among its lines; a DOCX
\* section has page_start = page_end = 1.
C13_PageRange ==
    /\ \A k \in 1..Len(sections) : sections[k].page_start <= sections[k].page_end
    /\ curr # <<>> => curr[1].page_start <= curr[1].page_end
    /\ pc = "pdf_done" =>
          /\ Len(sections) = Cardinality(Openers)
          /\ \A k \in 1..Len(sections) :
                LET o == KthOpener(k)
                IN  /\ sections[k].page_start = pages[o].page_num
                    /\ sections[k].page_end =
                          SetMax({pages[i].page_num : i \in LinesOfOpener(o)})
    /\ pc \in {"docx_loop", "docx_done"} =>
          \A k \in 1..Len(sections) :
              sections[k].page_start = 1 /\ sections[k].page_end = 1

\* C13 witness: a returned PDF section opened on page 2 took a later line
\* that is on page 1, and still ends on page 2.
C13_Witness ==
    /\ pc = "pdf_done"
    /\ \E k \in 1..Len(sections) :
          /\ sections[k].page_start = 2
          /\ sections[k].page_end = 2
          /\ \E i \in LinesOfOpener(KthOpener(k)) : pages[i].page_num = 1

(***************************************************************************)
(* Properties of process_file (SpecProcess).                               *)
(***************************************************************************)
ProcReturned == pc = "proc_done"
ProcRaised == pc = "proc_raised"

\* C14: for a file whose sniffed MIME type is application/msword, whatever
\* the suffix of its path, process_file starts no extractor and raises
\* nothing, and what it returns has zero sections and the legacy-.doc note.
C14_LegacyDocNoExtractor ==
    file.mime = MimeDoc =>
        /\ ran = {}
        /\ raised = ""
        /\ pc \in {"proc_enter", "proc_done"}
        /\ ProcReturned =>
              result = <<ProcessResult(MimeDoc, <<>>, <<NoteLegacyDoc>>, <<>>)>>

\* C15: for a file whose sniffed MIME type is application/pdf, whatever the
\* suffix of its path, process_file runs the PDF extractor and never the
\* DOCX extractor, and what it returns are the sections the PDF sectionizer
\* makes of the extracted pages.
C15_PdfMimeRunsPdf ==
    (file.mime = MimePdf /\ pc # "proc_enter") =>
        /\ "docx" \notin ran
        /\ pc \in {"pdf_primary_import", "pdf_primary_loop", "pdf_fallback_import",
                   "pdf_fallback_loop", "pdf_sectionize", "proc_done", "proc_raised"}
        /\ ProcReturned =>
              /\ ran \cap {"fitz", "pdfplumber"} # {}
              /\ result[1].sections = sectionize_pdf_lines(FlattenPages(ex_pages))
              /\ result[1].note = <<>>

\* C16: extract_pdf_native_text raises the no-backend ImportError exactly
\* when neither backend is available: with no backend the call ends in that
\* error, and when the first backend is installed and fails on the file the
\* failure that leaves the call is not the no-backend error.
C16_NoBackendErrorIffNone ==
    /\ (ProcRaised /\ "docx" \notin ran) =>
          (raised = ImportErrorNoBackend <=> (~backends.fitz /\ ~backends.plumber))
    /\ (~backends.fitz /\ ~backends.plumber) =>
          pc \notin {"pdf_primary_loop", "pdf_fallback_loop", "pdf_sectionize"}

\* C17: process_file returns a result or raises, never both; a returned
\* result is built from one complete extraction: all the file's pages, in
\* order, read by one backend, none of them a page the first backend had read
\* before it failed, and the sections are those of exactly these pages (or of
\* the paragraphs of the completed DOCX read).
C17_NoPartialResult ==
    /\ ~(result # <<>> /\ raised # "")
    /\ ProcRaised => (result = <<>> /\ raised # "")
    /\ ProcReturned => (result # <<>> /\ raised = "")
    /\ (ProcReturned /\ Branch(file.mime, file.path) = "pdf") =>
          /\ Len(ex_pages) = file.npages
          /\ \A i \in 1..Len(ex_pages) : ex_pages[i].page_num = i
          /\ \A i, j \in 1..Len(ex_pages) : ex_pages[i].by = ex_pages[j].by
          /\ discarded # <<>> => \A i \in 1..Len(ex_pages) : ex_pages[i].by = "pdfplumber"
          /\ pages = FlattenPages(ex_pages)
          /\ result[1].sections = sectionize_pdf_lines(pages)
    /\ (ProcReturned /\ Branch(file.mime, file.path) = "docx") =>
          result[1].sections = sectionize_from_docx_paragraphs(paragraphs)

\* C17 witness: the first backend failed after reading a page, the second
\* read both pages, and the returned result has a section.
C17_Witness ==
    /\ ProcReturned
    /\ discarded # <<>>
    /\ discarded[1].by = "fitz"
    /\ Len(ex_pages) = 2
    /\ result[1].sections # <<>>

(***************************************************************************)
(* The chunker's worked example (SpecExample).                             *)
(***************************************************************************)
\* the offset of the last space before offset DefaultMaxChars, or -1
SnapPoint ==
    LET S == {i \in 0..(DefaultMaxChars - 1) : i < Len(text) /\ text[i + 1] = SP}
    IN  IF S = {} THEN -1 ELSE SetMax(S)

\* a returned run of the example: 3000 characters, 1500 and 200, and the
\* last space before offset 1500 in the open interval (750, 1500)
ExampleReturned ==
    /\ pc = "chunk_done"
    /\ Len(text) = ExampleLen
    /\ max_chars = DefaultMaxChars
    /\ overlap = DefaultOverlap
    /\ SnapPoint > DefaultMaxChars \div 2
    /\ SnapPoint < DefaultMaxChars

\* window k (offsets [a, b)) holds a character that is not whitespace
NonBlankWindow(k) ==
    \E i \in windows[k][1]..(windows[k][2] - 1) : text[i + 1] \notin Whitespace

\* C18 as stated: the example yields exactly 2 pieces, and the second window
\* starts at snap_point - 200.
C18_ExampleAsStated ==
    ExampleReturned =>
        /\ Len(pieces) = 2
        /\ windows[2][1] = SnapPoint - DefaultOverlap

\* C18 amended: the example cuts three or four windows, the first is
\* text[0:snap_point], the second starts at snap_point - 200 and ends before
\* the end of the text, the last ends at the end of the text; there is one
\* piece per window that is not all whitespace, so three or four pieces when
\* no window is all whitespace.
C18_ExampleAmended ==
    ExampleReturned =>
        /\ Len(windows) \in {3, 4}
        /\ windows[1] = <<0, SnapPoint>>
        /\ windows[2][1] = SnapPoint - DefaultOverlap
        /\ windows[2][2] < Len(text)
        /\ windows[Len(windows)][2] = Len(text)
        /\ Len(pieces) = Cardinality({k \in 1..Len(windows) : NonBlankWindow(k)})
        /\ (\A k \in 1..Len(windows) : NonBlankWindow(k)) => Len(pieces) \in {3, 4}

\* C18 witness: a returned run of the example with four windows and four
\* pieces.
C18_Witness ==
    /\ ExampleReturned
    /\ Len(windows) = 4
    /\ Len(pieces) = 4

(***************************************************************************)
(* Properties of the store (SpecStore).                                    *)
(***************************************************************************)
\* the chunk records of coll that ingest_upload made for section sec
ChunksOfSection(coll, sec) ==
    {c \in coll : SubSeq(c.chunk_id, 1, Len(sec.section_id)) = sec.section_id}

C20_CascadeDeleteLeavesNothing ==
    [][(/\ resp'.op \in {"delete_document_cascade", "delete_documents_by_query"}
        /\ resp'.status = 200) =>
          \A d \in resp'.ids :
             /\ \A m \in db_docs' : m.document_id # d
             /\ \A c \in db_chunks' : c.document_id # d
             /\ \A e \in db_embeds' :
                   e.document_chunk_id \notin
                      {c.chunk_id : c \in {x \in db_chunks : x.document_id = d}}
             /\ \A f \in gridfs' : f.document_id # d
       ]_vars

(***************************************************************************)
(* Window sizes of the chunker (SpecChunk).                                *)
(***************************************************************************)
\* window k ended before min(n, start + max_chars): line 145 snapped it back
Snapped(k) ==
    windows[k][2] < Min2(Len(text), windows[k][1] + max_chars)

\* C21: a window whose end was snapped back to a space is still longer than
\* floor(max_chars / 2), and every window that is not the last one of its text
\* (its end lies before the end of the text) is longer than half of max_chars.
C21_WindowAboveHalf ==
    max_chars > 0 =>
        \A k \in 1..Len(windows) :
           /\ Snapped(k) => windows[k][2] - windows[k][1] > HalfOf(max_chars)
           /\ windows[k][2] < Len(text) =>
                 2 * (windows[k][2] - windows[k][1]) > max_chars

\* C21 witness: a returned run whose first window was snapped back and whose
\* second window was not and is not the last.
C21_Witness ==
    /\ pc = "chunk_done"
    /\ max_chars > 0
    /\ Len(windows) >= 3
    /\ Snapped(1)
    /\ ~Snapped(2)

(***************************************************************************)
(* Uploads one after another (SpecStore).                                  *)
(***************************************************************************)
\* every request served so far was an ingest_upload answered 200
OnlySuccessfulUploads == nok = nops

\* no two chunk records of coll share a chunk_id
DistinctChunkIds(coll) ==
    \A c1 \in coll, c2 \in coll : c1.chunk_id = c2.chunk_id => c1 = c2

\* C22: when every request so far was a successful ingest_upload, an
\* ingest_upload under a document id not used before, of a file process_file
\* makes at least one section of, returns successfully, and the chunk records
\* of the store then have pairwise distinct chunk_id values.
C22_NextDocumentIngests ==
    [][(/\ OnlySuccessfulUploads
        /\ resp'.op = "ingest_upload"
        /\ resp'.status # 400
        /\ ~DocIdTaken(db_docs, resp'.document_id)
        /\ result' # <<>>
        /\ Len(result'[1].sections) >= 1) =>
          /\ resp'.status = 200
          /\ DistinctChunkIds(db_chunks')
       ]_vars

(***************************************************************************)
(* What a cascade delete leaves alone (SpecStoreBare).                     *)
(***************************************************************************)
\* the embeddings of embeds that point to a chunk of a document other than d
EmbeddingsOfOthers(embeds, coll, d) ==
    {e \in embeds :
        \E c \in coll : c.chunk_id = e.document_chunk_id /\ c.document_id # d}

\* C23: a cascade delete of document D leaves every metadata record, chunk
\* record and stored file of the other documents as they were, and every
\* embedding that points to a chunk of another document, also when one of
\* D's chunks has the same chunk_id; it adds nothing.
C23_CascadeLeavesOthers ==
    [][(resp'.op = "delete_document_cascade" /\ resp'.status = 200) =>
          LET d == resp'.document_id
          IN  /\ {m \in db_docs' : m.document_id # d} = {m \in db_docs : m.document_id # d}
              /\ {c \in db_chunks' : c.document_id # d}
                     = {c \in db_chunks : c.document_id # d}
              /\ {f \in gridfs' : f.document_id # d} = {f \in gridfs : f.document_id # d}
              /\ EmbeddingsOfOthers(db_embeds, db_chunks, d) \subseteq db_embeds'
              /\ db_embeds' \subseteq db_embeds
       ]_vars

(***************************************************************************)
(* What ingest_upload leaves behind (SpecStore).                           *)
(***************************************************************************)
\* C24: an ingest_upload that fails after the upload was buffered (it answers
\* 500) leaves the stored files, the metadata records and the chunk records
\* as they were before the call.
C24_FailedIngestLeavesStore ==
    [][(resp'.op = "ingest_upload" /\ resp'.status = 500) =>
          /\ gridfs' = gridfs
          /\ db_docs' = db_docs
          /\ db_chunks' = db_chunks
       ]_vars

\* C25: after a successful ingest_upload the num_chunks field of the metadata
\* record of its document id equals the number of chunk records stored for
\* that document id, which is the "chunks" count of the response.
C25_NumChunksIsChunkCount ==
    [][(resp'.op = "ingest_upload" /\ resp'.status = 200) =>
          LET d == resp'.document_id
              n == Cardinality({c \in db_chunks' : c.document_id = d})
          IN  /\ n = resp'.chunks
              /\ \A m \in db_docs' : m.document_id = d => m.num_chunks = n
       ]_vars

\* C26: when an ingest_upload call ends, with 200, 400 or 500, the temporary
\* file it created no longer exists.
C26_TempFileRemoved ==
    [][resp'.op = "ingest_upload" => nops' \notin tmpfiles']_vars

====
